---- MODULE Spec2Model ----
(***************************************************************************)
(* Model of the trading-strategy analysis pair:                            *)
(*   simple_backtest  (simple_backtester.py)                               *)
(*   simulate_trades  (williams_fractal_trading_simulator.py)              *)
(* Floating point values are modelled as exact rationals <<num, den>>.     *)
(***************************************************************************)
EXTENDS Integers, Sequences, FiniteSets, TLC

\* ------------------------------------------------------------------------
\* Bounds of the model
\* ------------------------------------------------------------------------
\* largest number of (timestamp, signal) pairs handed to simple_backtest
MaxSignals == 3
\* largest number of rows of an indicator frame handed to simulate_trades
MaxN == 108
\* largest frame length handed from simulate_trades to simple_backtest
MaxPipeN == 106

\* ------------------------------------------------------------------------
\* Program constants
\* ------------------------------------------------------------------------
BUY == 1
SELL == -1
\* "A signal of 0 represents no action"
NO_ACTION == 0
\* start_portfolio_value, also the initial portfolio_value
StartValue == 100
\* candles last one minute; Time is in milliseconds
MsPerMinute == 60000
\* candle times of the backtest datasets
Times == <<0, 60000, 120000>>
\* timestamps that no dataset contains
AbsentTimes == {999999}
\* closing prices the datasets are drawn from
Closes == {90, 100, 110}
\* simulate_trades: rows needed, first scanned row, confirmation offset
MinRows == 102
WarmUp == 100
Confirm == 2
\* the tp to sl ratio passed by the script, 1.5
Target == <<3, 2>>

\* ------------------------------------------------------------------------
\* Exact rational arithmetic standing for Python/numpy floats
\* ------------------------------------------------------------------------
Abs(x) == IF x < 0 THEN -x ELSE x

RECURSIVE GCD(_, _)
GCD(a, b) == IF b = 0 THEN a ELSE GCD(b, a % b)

\* the rational n/d in lowest terms with a positive denominator
Rat(n, d) ==
    LET s == IF d < 0 THEN -1 ELSE 1
        g == GCD(Abs(n), Abs(d))
    IN  <<(s * n) \div g, (s * d) \div g>>

RInt(n) == <<n, 1>>
RAdd(x, y) == Rat(x[1] * y[2] + y[1] * x[2], x[2] * y[2])
RSub(x, y) == Rat(x[1] * y[2] - y[1] * x[2], x[2] * y[2])
RMul(x, y) == Rat(x[1] * y[1], x[2] * y[2])
RDiv(x, y) == Rat(x[1] * y[2], x[2] * y[1])
RGeq(x, y) == x[1] * y[2] >= y[1] * x[2]
RZero == RInt(0)

RECURSIVE RSum(_)
RSum(s) == IF s = <<>> THEN RZero ELSE RAdd(s[1], RSum(Tail(s)))

\* np.mean of a non-empty array
RMean(s) == RDiv(RSum(s), RInt(Len(s)))

\* ------------------------------------------------------------------------
\* State
\* ------------------------------------------------------------------------
VARIABLES
    \* simple_backtest: parameters
    df,              \* the dataset: sequence of [Time, Close]
    in_timestamps,   \* parameter timestamps, as supplied
    in_signals,      \* parameter signals, as supplied
    \* simple_backtest: locals
    pc,              \* position in simple_backtest
    df_filtered,     \* merged rows that carry a signal
    k,               \* number of rows of df_filtered already replayed
    position,
    prev_portfolio_value,
    portfolio_value,
    crypto_value,
    buy_times,
    sell_times,
    trade_times,
    trade_gain_losses,
    trade_perc_gain_losses,
    wins,
    trades,
    res,             \* the returned dictionary, NoResult until returned
    raised,          \* the exception raised, "none" if none
    \* simulate_trades: parameter
    frame,           \* rows WarmUp..N-1 of the indicator frame (rows below
                     \* WarmUp are never read by simulate_trades)
    N,               \* len(df) of the indicator frame
    \* simulate_trades: locals
    sim_pc,          \* position in simulate_trades
    i,               \* the loop variable of the scan
    active_trade,
    stop_loss,
    take_profit,
    timestamps,
    signals,
    sim_ret,         \* the returned value, NoResult until returned
    sim_raised       \* the exception raised, "none" if none

bt_vars == <<df, in_timestamps, in_signals, pc, df_filtered, k, position,
             prev_portfolio_value, portfolio_value, crypto_value, buy_times,
             sell_times, trade_times, trade_gain_losses,
             trade_perc_gain_losses, wins, trades, res, raised>>

sim_vars == <<frame, N, sim_pc, i, active_trade, stop_loss, take_profit,
              timestamps, signals, sim_ret, sim_raised>>

vars == <<bt_vars, sim_vars>>

NoResult == [absent |-> TRUE]
\* a local that is not bound yet
Unbound == "unbound"

\* ------------------------------------------------------------------------
\* simple_backtest: validation and preprocessing
\* ------------------------------------------------------------------------
DfTimes(d) == {d[r].Time : r \in 1..Len(d)}

\* variant: only the first timestamp is looked up
AnyMissingFirstOnly(d, ts) == Len(ts) > 0 /\ ts[1] \notin DfTimes(d)

\* any([t not in df['Time'].values for t in timestamps])
AnyMissing(d, ts) == \E j \in 1..Len(ts) : ts[j] \notin DfTimes(d)

\* the index arrays np.argsort may return: every permutation that puts the
\* timestamps in ascending order (the order of equal keys is unspecified
\* for the default, non-stable, sort kind)
RECURSIVE Ascending(_, _)
Ascending(ts, rest) ==
    IF rest = {} THEN {<<>>}
    ELSE UNION {{<<j>> \o p : p \in Ascending(ts, rest \ {j})} :
                    j \in {m \in rest : \A o \in rest : ts[m] <= ts[o]}}

ArgSorts(ts) == Ascending(ts, 1..Len(ts))

\* np.array(x)[sort_order]
Take(x, order) == [j \in 1..Len(x) |-> x[order[j]]]

\* rows of signal_df matching one dataset row, in signal_df order
RECURSIVE MatchRows(_, _, _, _)
MatchRows(row, ts, sg, j) ==
    IF j > Len(ts) THEN <<>>
    ELSE (IF ts[j] = row.Time
            THEN <<[Time |-> row.Time, Close |-> row.Close, Signal |-> sg[j]]>>
            ELSE <<>>)
         \o MatchRows(row, ts, sg, j + 1)

\* pd.merge(df, signal_df, how='left', on='Time') followed by dropping the
\* rows whose Signal is NaN: dataset order, then signal_df order
RECURSIVE MergeFiltered(_, _, _, _)
MergeFiltered(d, ts, sg, r) ==
    IF r > Len(d) THEN <<>>
    ELSE MatchRows(d[r], ts, sg, 1) \o MergeFiltered(d, ts, sg, r + 1)

\* ------------------------------------------------------------------------
\* simple_backtest: initial states (the call, with its arguments)
\* ------------------------------------------------------------------------
\* datasets: one candle per entry of Times, closes drawn from Closes
Datasets ==
    {[r \in 1..Len(Times) |-> [Time |-> Times[r], Close |-> c[r]]] :
        c \in [1..Len(Times) -> Closes]}

SignalValues == {BUY, SELL, NO_ACTION}

BtInit ==
    /\ df \in Datasets
    /\ \E m \in 0..MaxSignals :
        /\ in_timestamps \in [1..m -> DfTimes(df) \cup AbsentTimes]
        /\ in_signals \in [1..m -> SignalValues]
    /\ pc = "validate"
    /\ df_filtered = Unbound
    /\ k = Unbound
    /\ position = Unbound
    /\ prev_portfolio_value = Unbound
    /\ portfolio_value = Unbound
    /\ crypto_value = Unbound
    /\ buy_times = Unbound
    /\ sell_times = Unbound
    /\ trade_times = Unbound
    /\ trade_gain_losses = Unbound
    /\ trade_perc_gain_losses = Unbound
    /\ wins = Unbound
    /\ trades = Unbound
    /\ res = NoResult
    /\ raised = "none"

\* ------------------------------------------------------------------------
\* simple_backtest: steps
\* ------------------------------------------------------------------------
TimestampError == "ValueError: Timestamps must be in the DataFrame"

\* lines 60-61: the timestamp check
Validate ==
    /\ pc = "validate"
    /\ IF AnyMissing(df, in_timestamps)
         THEN /\ raised' = TimestampError
              /\ pc' = "raised"
         ELSE /\ raised' = raised
              /\ pc' = "prepare"
    /\ UNCHANGED <<df, in_timestamps, in_signals, df_filtered, k, position,
                   prev_portfolio_value, portfolio_value, crypto_value,
                   buy_times, sell_times, trade_times, trade_gain_losses,
                   trade_perc_gain_losses, wins, trades, res>>
    /\ UNCHANGED sim_vars

\* lines 72-84: the backtest variables as first assigned
InitialAccount ==
    [position |-> FALSE,
     prev_portfolio_value |-> RInt(StartValue),
     portfolio_value |-> RInt(StartValue),
     crypto_value |-> RZero,
     buy_times |-> <<>>,
     sell_times |-> <<>>,
     trade_times |-> <<>>,
     trade_gain_losses |-> <<>>,
     trade_perc_gain_losses |-> <<>>,
     wins |-> 0,
     trades |-> 0]

\* the backtest variables of the current state
Account ==
    [position |-> position,
     prev_portfolio_value |-> prev_portfolio_value,
     portfolio_value |-> portfolio_value,
     crypto_value |-> crypto_value,
     buy_times |-> buy_times,
     sell_times |-> sell_times,
     trade_times |-> trade_times,
     trade_gain_losses |-> trade_gain_losses,
     trade_perc_gain_losses |-> trade_perc_gain_losses,
     wins |-> wins,
     trades |-> trades]

\* the backtest variables become those of the record a
SetAccount(a) ==
    /\ position' = a.position
    /\ prev_portfolio_value' = a.prev_portfolio_value
    /\ portfolio_value' = a.portfolio_value
    /\ crypto_value' = a.crypto_value
    /\ buy_times' = a.buy_times
    /\ sell_times' = a.sell_times
    /\ trade_times' = a.trade_times
    /\ trade_gain_losses' = a.trade_gain_losses
    /\ trade_perc_gain_losses' = a.trade_perc_gain_losses
    /\ wins' = a.wins
    /\ trades' = a.trades

\* variant: the signals are replayed in the order supplied, each joined to
\* its candle, without sorting
PrepareSuppliedOrder ==
    /\ pc = "prepare"
    /\ df_filtered' =
          [j \in 1..Len(in_timestamps) |->
              [Time |-> in_timestamps[j],
               Close |-> (CHOOSE row \in {df[r] : r \in 1..Len(df)} :
                              row.Time = in_timestamps[j]).Close,
               Signal |-> in_signals[j]]]
    /\ SetAccount(InitialAccount)
    /\ k' = 0
    /\ pc' = "replay"
    /\ UNCHANGED <<df, in_timestamps, in_signals, res, raised>>
    /\ UNCHANGED sim_vars

\* lines 63-89: sort the signals, merge them into a copy of the dataset,
\* keep the rows that carry a signal, initialise the backtest variables
Prepare ==
    /\ pc = "prepare"
    /\ \E sort_order \in ArgSorts(in_timestamps) :
          df_filtered' = MergeFiltered(df, Take(in_timestamps, sort_order),
                                       Take(in_signals, sort_order), 1)
    /\ SetAccount(InitialAccount)
    /\ k' = 0
    /\ pc' = "replay"
    /\ UNCHANGED <<df, in_timestamps, in_signals, res, raised>>
    /\ UNCHANGED sim_vars

\* variant: a buy keeps the account value as the number of units
ReplayRowNoDivide(a, row) ==
    IF ~a.position /\ row.Signal = BUY
      THEN [a EXCEPT !.prev_portfolio_value = a.portfolio_value,
                     !.crypto_value = a.portfolio_value,
                     !.buy_times = Append(a.buy_times, row.Time),
                     !.position = TRUE]
    ELSE IF a.position /\ row.Signal = SELL
      THEN LET new_value == RMul(a.crypto_value, RInt(row.Close))
               gain_loss == RSub(new_value, a.prev_portfolio_value)
           IN  [a EXCEPT !.portfolio_value = new_value,
                         !.position = FALSE,
                         !.sell_times = Append(a.sell_times, row.Time),
                         !.trade_times = Append(a.trade_times, row.Time),
                         !.trade_gain_losses =
                             Append(a.trade_gain_losses, gain_loss),
                         !.trade_perc_gain_losses =
                             Append(a.trade_perc_gain_losses,
                                    RDiv(gain_loss, a.prev_portfolio_value)),
                         !.trades = a.trades + 1,
                         !.wins = IF RGeq(gain_loss, RZero)
                                    THEN a.wins + 1 ELSE a.wins]
    ELSE a

\* variant: a buy is executed whatever the position
ReplayRowRebuy(a, row) ==
    IF row.Signal = BUY
      THEN [a EXCEPT !.prev_portfolio_value = a.portfolio_value,
                     !.crypto_value =
                         RDiv(a.portfolio_value, RInt(row.Close)),
                     !.buy_times = Append(a.buy_times, row.Time),
                     !.position = TRUE]
    ELSE IF a.position /\ row.Signal = SELL
      THEN LET new_value == RMul(a.crypto_value, RInt(row.Close))
               gain_loss == RSub(new_value, a.prev_portfolio_value)
           IN  [a EXCEPT !.portfolio_value = new_value,
                         !.position = FALSE,
                         !.sell_times = Append(a.sell_times, row.Time),
                         !.trade_times = Append(a.trade_times, row.Time),
                         !.trade_gain_losses =
                             Append(a.trade_gain_losses, gain_loss),
                         !.trade_perc_gain_losses =
                             Append(a.trade_perc_gain_losses,
                                    RDiv(gain_loss, a.prev_portfolio_value)),
                         !.trades = a.trades + 1,
                         !.wins = IF RGeq(gain_loss, RZero)
                                    THEN a.wins + 1 ELSE a.wins]
    ELSE a

\* variant: a BUY moves the account value into the position, leaving 0
ReplayRowCashOut(a, row) ==
    IF ~a.position /\ row.Signal = BUY
      THEN [a EXCEPT !.prev_portfolio_value = a.portfolio_value,
                     !.crypto_value =
                         RDiv(a.portfolio_value, RInt(row.Close)),
                     !.portfolio_value = RZero,
                     !.buy_times = Append(a.buy_times, row.Time),
                     !.position = TRUE]
    ELSE IF a.position /\ row.Signal = SELL
      THEN LET new_value == RMul(a.crypto_value, RInt(row.Close))
               gain_loss == RSub(new_value, a.prev_portfolio_value)
           IN  [a EXCEPT !.portfolio_value = new_value,
                         !.position = FALSE,
                         !.sell_times = Append(a.sell_times, row.Time),
                         !.trade_times = Append(a.trade_times, row.Time),
                         !.trade_gain_losses =
                             Append(a.trade_gain_losses, gain_loss),
                         !.trade_perc_gain_losses =
                             Append(a.trade_perc_gain_losses,
                                    RDiv(gain_loss, a.prev_portfolio_value)),
                         !.trades = a.trades + 1,
                         !.wins = IF RGeq(gain_loss, RZero)
                                    THEN a.wins + 1 ELSE a.wins]
    ELSE a

\* variant: a trade counts as a win only when its gain is above zero
ReplayRowStrictWin(a, row) ==
    IF ~a.position /\ row.Signal = BUY
      THEN [a EXCEPT !.prev_portfolio_value = a.portfolio_value,
                     !.crypto_value =
                         RDiv(a.portfolio_value, RInt(row.Close)),
                     !.buy_times = Append(a.buy_times, row.Time),
                     !.position = TRUE]
    ELSE IF a.position /\ row.Signal = SELL
      THEN LET new_value == RMul(a.crypto_value, RInt(row.Close))
               gain_loss == RSub(new_value, a.prev_portfolio_value)
           IN  [a EXCEPT !.portfolio_value = new_value,
                         !.position = FALSE,
                         !.sell_times = Append(a.sell_times, row.Time),
                         !.trade_times = Append(a.trade_times, row.Time),
                         !.trade_gain_losses =
                             Append(a.trade_gain_losses, gain_loss),
                         !.trade_perc_gain_losses =
                             Append(a.trade_perc_gain_losses,
                                    RDiv(gain_loss, a.prev_portfolio_value)),
                         !.trades = a.trades + 1,
                         !.wins = IF gain_loss[1] > 0
                                    THEN a.wins + 1 ELSE a.wins]
    ELSE a

\* lines 93-113: the body of the replay loop on one row, from the backtest
\* variables a to their values after the row
ReplayRow(a, row) ==
    LET time == row.Time
        close == RInt(row.Close)
        signal == row.Signal
        new_value == RMul(a.crypto_value, close)
        gain_loss == RSub(new_value, a.prev_portfolio_value)
        perc_gain_loss == RDiv(gain_loss, a.prev_portfolio_value)
    IN  IF ~a.position /\ signal = BUY
          THEN [a EXCEPT !.prev_portfolio_value = a.portfolio_value,
                         !.crypto_value = RDiv(a.portfolio_value, close),
                         !.buy_times = Append(a.buy_times, time),
                         !.position = TRUE]
        ELSE IF a.position /\ signal = SELL
          THEN [a EXCEPT !.portfolio_value = new_value,
                         !.position = FALSE,
                         !.sell_times = Append(a.sell_times, time),
                         !.trade_times = Append(a.trade_times, time),
                         !.trade_gain_losses =
                             Append(a.trade_gain_losses, gain_loss),
                         !.trade_perc_gain_losses =
                             Append(a.trade_perc_gain_losses, perc_gain_loss),
                         !.trades = a.trades + 1,
                         !.wins = IF RGeq(gain_loss, RZero)
                                    THEN a.wins + 1 ELSE a.wins]
        ELSE a

\* lines 90-113: one iteration of the replay loop, on row k+1 of df_filtered
ReplayStep ==
    /\ pc = "replay"
    /\ k < Len(df_filtered)
    /\ SetAccount(ReplayRow(Account, df_filtered[k + 1]))
    /\ k' = k + 1
    /\ UNCHANGED <<df, in_timestamps, in_signals, pc, df_filtered, res, raised>>
    /\ UNCHANGED sim_vars

\* numpy broadcasting of two one-dimensional arrays
Broadcastable(x, y) == Len(x) = Len(y) \/ Len(x) = 1 \/ Len(y) = 1

\* x - y, elementwise, for broadcastable integer arrays
ArraySub(x, y) ==
    LET n == IF Len(x) >= Len(y) THEN Len(x) ELSE Len(y)
    IN  [j \in 1..n |->
            RInt((IF Len(x) = 1 THEN x[1] ELSE x[j])
                 - (IF Len(y) = 1 THEN y[1] ELSE y[j]))]

\* line 137: sell_times - buy_times is evaluated and does not broadcast
HoldingTimeRaises(a) ==
    /\ Len(a.buy_times) > 0
    /\ Len(a.sell_times) > 0
    /\ ~Broadcastable(a.sell_times, a.buy_times)

\* variant: an open position is valued at the last close of the dataset
ResultMarkToMarket(a) ==
    LET value == IF a.position
                   THEN RMul(a.crypto_value, RInt(df[Len(df)].Close))
                   ELSE a.portfolio_value
    IN  [buy_times |-> a.buy_times,
         sell_times |-> a.sell_times,
         trade_times |-> a.trade_times,
         trade_gain_losses |-> a.trade_gain_losses,
         trade_perc_gain_losses |-> a.trade_perc_gain_losses,
         num_wins |-> a.wins,
         win_rate |-> IF a.trades > 0 THEN Rat(a.wins, a.trades) ELSE RZero,
         num_trades |-> a.trades,
         start_portfolio_value |-> RInt(StartValue),
         end_portfolio_value |-> value,
         percentage_gain |->
             RDiv(RSub(value, RInt(StartValue)), RInt(StartValue)),
         avg_perc_gain_per_trade |->
             IF Len(a.trade_perc_gain_losses) > 0
               THEN RMean(a.trade_perc_gain_losses) ELSE RZero,
         avg_gain_loss_per_trade |->
             IF Len(a.trade_gain_losses) > 0
               THEN RMean(a.trade_gain_losses) ELSE RZero,
         avg_holding_time |->
             IF Len(a.buy_times) > 0 /\ Len(a.sell_times) > 0
               THEN RMean(ArraySub(a.sell_times, a.buy_times)) ELSE RZero]

\* lines 123-138: the result dictionary
Result(a) ==
    [buy_times |-> a.buy_times,
     sell_times |-> a.sell_times,
     trade_times |-> a.trade_times,
     trade_gain_losses |-> a.trade_gain_losses,
     trade_perc_gain_losses |-> a.trade_perc_gain_losses,
     num_wins |-> a.wins,
     win_rate |-> IF a.trades > 0 THEN Rat(a.wins, a.trades) ELSE RZero,
     num_trades |-> a.trades,
     start_portfolio_value |-> RInt(StartValue),
     end_portfolio_value |-> a.portfolio_value,
     percentage_gain |->
         RDiv(RSub(a.portfolio_value, RInt(StartValue)), RInt(StartValue)),
     avg_perc_gain_per_trade |->
         IF Len(a.trade_perc_gain_losses) > 0
           THEN RMean(a.trade_perc_gain_losses) ELSE RZero,
     avg_gain_loss_per_trade |->
         IF Len(a.trade_gain_losses) > 0
           THEN RMean(a.trade_gain_losses) ELSE RZero,
     avg_holding_time |->
         IF Len(a.buy_times) > 0 /\ Len(a.sell_times) > 0
           THEN RMean(ArraySub(a.sell_times, a.buy_times)) ELSE RZero]

BroadcastError == "ValueError: operands could not be broadcast together"

\* lines 115-139: after the loop, build and return the result; the
\* subtraction sell_times - buy_times raises when the shapes do not broadcast
Aggregate ==
    /\ pc = "replay"
    /\ k = Len(df_filtered)
    /\ IF HoldingTimeRaises(Account)
         THEN /\ raised' = BroadcastError
              /\ pc' = "raised"
              /\ res' = res
         ELSE /\ res' = Result(Account)
              /\ pc' = "done"
              /\ raised' = raised
    /\ UNCHANGED <<df, in_timestamps, in_signals, df_filtered, k, position,
                   prev_portfolio_value, portfolio_value, crypto_value,
                   buy_times, sell_times, trade_times, trade_gain_losses,
                   trade_perc_gain_losses, wins, trades>>
    /\ UNCHANGED sim_vars

\* simulate_trades is not running
SimIdle ==
    /\ frame = <<>>
    /\ N = 0
    /\ sim_pc = "idle"
    /\ i = Unbound
    /\ active_trade = Unbound
    /\ stop_loss = Unbound
    /\ take_profit = Unbound
    /\ timestamps = Unbound
    /\ signals = Unbound
    /\ sim_ret = NoResult
    /\ sim_raised = "none"

Init == BtInit /\ SimIdle

Next == Validate \/ Prepare \/ ReplayStep \/ Aggregate

Spec == Init /\ [][Next]_vars

\* ------------------------------------------------------------------------
\* simulate_trades: the indicator frame
\* ------------------------------------------------------------------------
\* a missing float; a present one is the one-element tuple <<v>>
NaN == <<>>
Num(v) == <<v>>
\* x <= e and x > e for a nullable float x: False when x is NaN
NanLeq(x, e) == x # NaN /\ x[1] <= e
NanGt(x, e) == x # NaN /\ x[1] > e

\* candle shapes the frames are built from (bull is the Low of a row that
\* mark_fractals marked, else NaN):
\*   fractal between the 20 and the 50 EMA in a rising regime
\*   fractal between the 50 and the 100 EMA in a rising regime
\*   fractal while twenty_ema <= fifty_ema
\*   no fractal, rising regime, wide candle
RowKinds ==
    {[twenty_ema |-> 12, fifty_ema |-> 10, one_hundred_ema |-> 8,
      bull |-> Num(11), Low |-> 11, Close |-> 13, High |-> 14],
     [twenty_ema |-> 14, fifty_ema |-> 11, one_hundred_ema |-> 9,
      bull |-> Num(10), Low |-> 10, Close |-> 15, High |-> 16],
     [twenty_ema |-> 10, fifty_ema |-> 10, one_hundred_ema |-> 8,
      bull |-> Num(9), Low |-> 9, Close |-> 9, High |-> 10],
     [twenty_ema |-> 16, fifty_ema |-> 12, one_hundred_ema |-> 10,
      bull |-> NaN, Low |-> 10, Close |-> 20, High |-> 22]}

\* Time of row j: one candle per minute
TimeOf(j) == j * MsPerMinute

\* the frames of n rows: rows below WarmUp are left out, a frame holds the
\* rows WarmUp..n-1
Frames(n) ==
    IF n <= WarmUp THEN {<<>>}
    ELSE [1..(n - WarmUp) -> RowKinds]

\* df.X[j] for WarmUp <= j < N
Row(j) == frame[j - WarmUp + 1]

\* ------------------------------------------------------------------------
\* simulate_trades: steps
\* ------------------------------------------------------------------------
SimInit ==
    /\ N \in WarmUp..MaxN
    /\ frame \in Frames(N)
    /\ sim_pc = "start"
    /\ i = Unbound
    /\ active_trade = Unbound
    /\ stop_loss = Unbound
    /\ take_profit = Unbound
    /\ timestamps = Unbound
    /\ signals = Unbound
    /\ sim_ret = NoResult
    /\ sim_raised = "none"

\* simulate_trades returns None
None == [none |-> TRUE]

\* variant: the length check lets a frame of MinRows - 1 rows through
SimStartShort ==
    /\ sim_pc = "start"
    /\ IF N < MinRows - 1
         THEN /\ sim_ret' = None
              /\ sim_pc' = "done"
              /\ UNCHANGED <<i, active_trade, timestamps, signals>>
         ELSE /\ active_trade' = FALSE
              /\ timestamps' = <<>>
              /\ signals' = <<>>
              /\ i' = WarmUp
              /\ sim_pc' = "scan"
              /\ sim_ret' = sim_ret
    /\ UNCHANGED <<frame, N, stop_loss, take_profit, sim_raised>>
    /\ UNCHANGED bt_vars

\* lines 49-54: the length check and the initialisation
SimStart ==
    /\ sim_pc = "start"
    /\ IF N < MinRows
         THEN /\ sim_ret' = None
              /\ sim_pc' = "done"
              /\ UNCHANGED <<i, active_trade, timestamps, signals>>
         ELSE /\ active_trade' = FALSE
              /\ timestamps' = <<>>
              /\ signals' = <<>>
              /\ i' = WarmUp
              /\ sim_pc' = "scan"
              /\ sim_ret' = sim_ret
    /\ UNCHANGED <<frame, N, stop_loss, take_profit, sim_raised>>
    /\ UNCHANGED bt_vars

\* lines 73-75, 84-86: the thresholds of a trade opened on row j with the
\* given boundary EMA
TakeProfit(j, sl) ==
    RAdd(RInt(Row(j).Close), RMul(RInt(Abs(Row(j).Close - sl)), Target))

\* variant: a Low equal to the stop loss also closes the trade
ExitTestLowInclusive(j) ==
    \/ RGeq(RInt(Row(j).High), take_profit)
    \/ Row(j).Low <= stop_loss

\* line 59: the exit test on row j
ExitTest(j) ==
    \/ RGeq(RInt(Row(j).High), take_profit)
    \/ Row(j).Low < stop_loss

\* variant: equal 20 and 50 EMAs pass the trend filter
TrendTestLoose(j) ==
    /\ Row(j).twenty_ema >= Row(j).fifty_ema
    /\ Row(j).fifty_ema > Row(j).one_hundred_ema

\* line 67: the EMAs line up
TrendTest(j) ==
    /\ Row(j).twenty_ema > Row(j).fifty_ema
    /\ Row(j).fifty_ema > Row(j).one_hundred_ema

\* line 69: the fractal is between the 20 and the 50 EMA
FastMidZone(j) ==
    /\ NanLeq(Row(j).bull, Row(j).twenty_ema)
    /\ NanGt(Row(j).bull, Row(j).fifty_ema)

\* line 80: the fractal is between the 50 and the 100 EMA
MidSlowZone(j) ==
    /\ NanLeq(Row(j).bull, Row(j).fifty_ema)
    /\ NanGt(Row(j).bull, Row(j).one_hundred_ema)

\* variant: the trade is stamped and priced on the matched row
OpenTradeNoOffset(j, sl) ==
    /\ active_trade' = TRUE
    /\ stop_loss' = sl
    /\ take_profit' = TakeProfit(j - Confirm, sl)
    /\ timestamps' = Append(timestamps, TimeOf(j - Confirm))
    /\ signals' = Append(signals, BUY)

\* variant: the entry does not mark the trade as active
OpenTradeNotActive(j, sl) ==
    /\ active_trade' = active_trade
    /\ stop_loss' = sl
    /\ take_profit' = TakeProfit(j, sl)
    /\ timestamps' = Append(timestamps, TimeOf(j))
    /\ signals' = Append(signals, BUY)

\* variant: the BUY is stamped Confirm rows after the confirmation row
OpenTradeLate(j, sl) ==
    /\ active_trade' = TRUE
    /\ stop_loss' = sl
    /\ take_profit' = TakeProfit(j, sl)
    /\ timestamps' = Append(timestamps, TimeOf(j + Confirm))
    /\ signals' = Append(signals, BUY)

\* lines 71-78 and 82-89: open a trade; the body adds Confirm to its own copy
\* of the loop variable, which the for statement overwrites on the next
\* iteration
OpenTrade(j, sl) ==
    /\ active_trade' = TRUE
    /\ stop_loss' = sl
    /\ take_profit' = TakeProfit(j, sl)
    /\ timestamps' = Append(timestamps, TimeOf(j))
    /\ signals' = Append(signals, BUY)

\* lines 57-89: one iteration of the scan, for i in range(100, len(df) - 2)
ScanRow ==
    /\ sim_pc = "scan"
    /\ i < N - Confirm
    /\ IF active_trade
         THEN IF ExitTest(i)
                THEN /\ timestamps' = Append(timestamps, TimeOf(i))
                     /\ signals' = Append(signals, SELL)
                     /\ active_trade' = FALSE
                     /\ UNCHANGED <<stop_loss, take_profit>>
                ELSE UNCHANGED <<timestamps, signals, active_trade,
                                 stop_loss, take_profit>>
         ELSE IF TrendTest(i) /\ FastMidZone(i)
                THEN OpenTrade(i + Confirm, Row(i + Confirm).fifty_ema)
              ELSE IF TrendTest(i) /\ MidSlowZone(i)
                THEN OpenTrade(i + Confirm, Row(i + Confirm).one_hundred_ema)
              ELSE UNCHANGED <<timestamps, signals, active_trade,
                               stop_loss, take_profit>>
    /\ i' = i + 1
    /\ UNCHANGED <<frame, N, sim_pc, sim_ret, sim_raised>>
    /\ UNCHANGED bt_vars

\* variant: the lists are returned as the scan left them
SimFinishNoStrip ==
    /\ sim_pc = "scan"
    /\ ~(i < N - Confirm)
    /\ IF signals = <<>>
         THEN /\ sim_raised' = "IndexError: list index out of range"
              /\ sim_pc' = "raised"
              /\ sim_ret' = sim_ret
         ELSE /\ sim_ret' = [timestamps |-> timestamps, signals |-> signals]
              /\ sim_pc' = "done"
              /\ sim_raised' = sim_raised
    /\ UNCHANGED <<timestamps, signals>>
    /\ UNCHANGED <<frame, N, i, active_trade, stop_loss, take_profit>>
    /\ UNCHANGED bt_vars

\* lines 91-95: after the loop, drop a trailing buy and return; signals[-1]
\* raises IndexError on an empty list
SimFinish ==
    /\ sim_pc = "scan"
    /\ ~(i < N - Confirm)
    /\ IF signals = <<>>
         THEN /\ sim_raised' = "IndexError: list index out of range"
              /\ sim_pc' = "raised"
              /\ UNCHANGED <<timestamps, signals, sim_ret>>
         ELSE IF signals[Len(signals)] = BUY
         THEN /\ signals' = SubSeq(signals, 1, Len(signals) - 1)
              /\ timestamps' = SubSeq(timestamps, 1, Len(timestamps) - 1)
              /\ sim_ret' = [timestamps |-> timestamps', signals |-> signals']
              /\ sim_pc' = "done"
              /\ sim_raised' = sim_raised
         ELSE /\ sim_ret' = [timestamps |-> timestamps, signals |-> signals]
              /\ sim_pc' = "done"
              /\ UNCHANGED <<timestamps, signals, sim_raised>>
    /\ UNCHANGED <<frame, N, i, active_trade, stop_loss, take_profit>>
    /\ UNCHANGED bt_vars

\* simple_backtest is not running
BtIdle ==
    /\ df = <<>>
    /\ in_timestamps = <<>>
    /\ in_signals = <<>>
    /\ pc = "idle"
    /\ df_filtered = Unbound
    /\ k = Unbound
    /\ position = Unbound
    /\ prev_portfolio_value = Unbound
    /\ portfolio_value = Unbound
    /\ crypto_value = Unbound
    /\ buy_times = Unbound
    /\ sell_times = Unbound
    /\ trade_times = Unbound
    /\ trade_gain_losses = Unbound
    /\ trade_perc_gain_losses = Unbound
    /\ wins = Unbound
    /\ trades = Unbound
    /\ res = NoResult
    /\ raised = "none"

GenInit == SimInit /\ BtIdle

GenNext == SimStart \/ ScanRow \/ SimFinish

GenSpec == GenInit /\ [][GenNext]_vars

\* ------------------------------------------------------------------------
\* Properties of simple_backtest (checked under Spec)
\* ------------------------------------------------------------------------
\* some supplied timestamp is the Time of no candle of the dataset
SomeTimestampAbsent ==
    \E j \in 1..Len(in_timestamps) :
        \A r \in 1..Len(df) : df[r].Time # in_timestamps[j]

\* the step about to be taken replays row k+1, in the given position on the
\* given signal
Replaying(long, signal) ==
    /\ pc = "replay"
    /\ k < Len(df_filtered)
    /\ position = long
    /\ df_filtered[k + 1].Signal = signal

Last(q) == q[Len(q)]

\* C1: a supplied timestamp that is not among the dataset's Time values makes
\* simple_backtest raise the validation error straight after the check: no
\* row is merged or replayed, no backtest variable is bound, no result is
\* returned. When every timestamp is present the validation error is never
\* raised.
C1_ValidationFailsFast ==
    /\ (SomeTimestampAbsent /\ pc # "validate") =>
          /\ pc = "raised"
          /\ raised = TimestampError
          /\ res = NoResult
          /\ df_filtered = Unbound
          /\ k = Unbound
          /\ position = Unbound
          /\ portfolio_value = Unbound
          /\ buy_times = Unbound
          /\ sell_times = Unbound
          /\ trade_gain_losses = Unbound
          /\ trades = Unbound
          /\ wins = Unbound
    /\ ~SomeTimestampAbsent => raised # TimestampError

\* C1 witness: the call was rejected for a list whose first timestamp is
\* present and whose later one is absent
C1_Witness ==
    /\ pc = "raised"
    /\ raised = TimestampError
    /\ Len(in_timestamps) >= 2
    /\ in_timestamps[1] \in DfTimes(df)
    /\ in_timestamps[2] \in AbsentTimes

\* the supplied timestamps are pairwise distinct
DistinctTimestamps ==
    \A x, y \in 1..Len(in_timestamps) :
        x # y => in_timestamps[x] # in_timestamps[y]

\* the supplied (timestamp, direction) pairs in ascending time order, each
\* with the close of its candle (for distinct, present timestamps)
RowsInTimeOrder ==
    [r \in 1..Len(in_timestamps) |->
        LET j == CHOOSE m \in 1..Len(in_timestamps) :
                     Cardinality({o \in 1..Len(in_timestamps) :
                                      in_timestamps[o] < in_timestamps[m]})
                     = r - 1
            c == CHOOSE x \in 1..Len(df) : df[x].Time = in_timestamps[j]
        IN  [Time |-> in_timestamps[j], Close |-> df[c].Close,
             Signal |-> in_signals[j]]]

\* the replay loop over rows j..Len(rows)
RECURSIVE ReplayAll(_, _, _)
ReplayAll(a, rows, j) ==
    IF j > Len(rows) THEN a
    ELSE ReplayAll(ReplayRow(a, rows[j]), rows, j + 1)

\* C2: for distinct timestamps the outcome of a run is the outcome of
\* replaying the supplied pairs one by one in ascending timestamp order,
\* whatever the order they were supplied in; every permutation of a list
\* therefore gives the same result record.
C2_OrderIndependent ==
    (DistinctTimestamps /\ ~SomeTimestampAbsent /\ pc \in {"done", "raised"}) =>
        LET a == ReplayAll(InitialAccount, RowsInTimeOrder, 1)
        IN  IF pc = "done"
              THEN ~HoldingTimeRaises(a) /\ res = Result(a)
              ELSE HoldingTimeRaises(a)

\* closes of the dataset
ClosesOf(d) == [r \in 1..Len(d) |-> d[r].Close]

\* C2 witness: the pairs of the example supplied out of order,
\* [(120000, SELL), (0, BUY)], gave one closed trade
C2_Witness ==
    /\ pc = "done"
    /\ ClosesOf(df) = <<100, 110, 90>>
    /\ in_timestamps = <<120000, 0>>
    /\ in_signals = <<SELL, BUY>>
    /\ res.num_trades = 1
    /\ res.end_portfolio_value = RInt(90)

\* a replay step that opens a trade does what C3 says
C3_OpenStep ==
    Replaying(FALSE, BUY) =>
        /\ prev_portfolio_value' = portfolio_value
        /\ crypto_value' =
               RDiv(portfolio_value, RInt(df_filtered[k + 1].Close))
        /\ portfolio_value' = portfolio_value
        /\ position' = TRUE

\* a replay step that closes a trade does what C3 says
C3_CloseStep ==
    Replaying(TRUE, SELL) =>
        /\ portfolio_value' =
               RMul(crypto_value, RInt(df_filtered[k + 1].Close))
        /\ Last(trade_gain_losses') =
               RSub(portfolio_value', prev_portfolio_value)
        /\ Last(trade_perc_gain_losses') =
               RDiv(RSub(portfolio_value', prev_portfolio_value),
                    prev_portfolio_value)
        /\ trades' = trades + 1
        /\ position' = FALSE

\* the example of C3: closes [100, 110, 90], signals [(0,BUY),(120000,SELL)]
C3_Example ==
    (/\ pc = "done"
     /\ ClosesOf(df) = <<100, 110, 90>>
     /\ in_timestamps = <<0, 120000>>
     /\ in_signals = <<BUY, SELL>>) =>
        /\ res.num_trades = 1
        /\ res.num_wins = 0
        /\ res.trade_gain_losses = <<RInt(-10)>>
        /\ res.trade_perc_gain_losses = <<Rat(-1, 10)>>
        /\ res.end_portfolio_value = RInt(90)
        /\ res.percentage_gain = Rat(-1, 10)

\* C3: a BUY replayed while FLAT at close p keeps the account value V as the
\* entry reference, holds V / p units and goes LONG; a SELL replayed while
\* LONG at close q makes the account value units * q, records the gain
\* against the entry reference and the gain relative to it, counts one more
\* trade and goes FLAT; closes [100, 110, 90] with [(0,BUY),(120000,SELL)]
\* give one trade, no win, gain -10, perc_gain -0.10, end value 90.
C3_TradeReplay ==
    /\ [][C3_OpenStep /\ C3_CloseStep]_vars
    /\ []C3_Example

\* C3 witness: the example has run to its result
C3_Witness ==
    /\ pc = "done"
    /\ ClosesOf(df) = <<100, 110, 90>>
    /\ in_timestamps = <<0, 120000>>
    /\ in_signals = <<BUY, SELL>>
    /\ res.trade_gain_losses = <<RInt(-10)>>

\* C4: a replay step on a BUY while LONG, on a SELL while FLAT or on a signal
\* 0 leaves the position, the account value, the units, the entry reference,
\* the counters and the recorded sequences as they were, and raises nothing.
C4_IgnoredSignals ==
    [][(\/ Replaying(TRUE, BUY)
        \/ Replaying(FALSE, SELL)
        \/ Replaying(TRUE, NO_ACTION)
        \/ Replaying(FALSE, NO_ACTION)) =>
            /\ UNCHANGED <<position, portfolio_value, crypto_value,
                           prev_portfolio_value, trades, wins, buy_times,
                           sell_times, trade_times, trade_gain_losses,
                           trade_perc_gain_losses>>
            /\ raised' = "none"
            /\ pc' = "replay"]_vars

\* C4 witness: a SELL while FLAT and then a BUY while LONG have been
\* replayed and ignored
C4_Witness ==
    /\ pc = "replay"
    /\ k = 3
    /\ df_filtered[1].Signal = SELL
    /\ df_filtered[2].Signal = BUY
    /\ df_filtered[3].Signal = BUY
    /\ position = TRUE
    /\ buy_times = <<df_filtered[2].Time>>
    /\ sell_times = <<>>
    /\ trades = 0

\* the holding times of the closed trades
HoldingTimes(r) ==
    [j \in 1..r.num_trades |-> RInt(r.sell_times[j] - r.buy_times[j])]

\* C9, as the specification states it: in every result each of buy_times, sell_times,
\* trade_times, trade_gain_losses and trade_perc_gain_losses has num_trades
\* entries, and avg_holding_time is the mean of sell_time - buy_time over
\* the closed trades (0 without one).
C9_OneEntryPerClosedTrade ==
    pc = "done" =>
        /\ Len(res.buy_times) = res.num_trades
        /\ Len(res.sell_times) = res.num_trades
        /\ Len(res.trade_times) = res.num_trades
        /\ Len(res.trade_gain_losses) = res.num_trades
        /\ Len(res.trade_perc_gain_losses) = res.num_trades
        /\ res.avg_holding_time =
               IF res.num_trades > 0 THEN RMean(HoldingTimes(res)) ELSE RZero

\* C10: a run that closes no trade returns, without raising, num_trades 0,
\* num_wins 0, win_rate 0, end and start value 100, percentage_gain 0 and
\* the three averages 0.
C10_NoClosedTrade ==
    /\ raised = BroadcastError => trades > 0
    /\ (pc = "done" /\ trades = 0) =>
          /\ raised = "none"
          /\ res.num_trades = 0
          /\ res.num_wins = 0
          /\ res.win_rate = RZero
          /\ res.end_portfolio_value = RInt(100)
          /\ res.start_portfolio_value = RInt(100)
          /\ res.percentage_gain = RZero
          /\ res.avg_perc_gain_per_trade = RZero
          /\ res.avg_gain_loss_per_trade = RZero
          /\ res.avg_holding_time = RZero

\* C10 witness: a single BUY was replayed and never sold, and the result is
\* returned
C10_Witness ==
    /\ pc = "done"
    /\ trades = 0
    /\ Len(buy_times) = 1
    /\ position = TRUE
    /\ df[Len(df)].Close # df_filtered[1].Close

\* ------------------------------------------------------------------------
\* Properties of simulate_trades (checked under GenSpec)
\* ------------------------------------------------------------------------
Front(q) == SubSeq(q, 1, Len(q) - 1)

\* number of entries of q equal to v
Count(q, v) == Cardinality({j \in 1..Len(q) : q[j] = v})

\* simulate_trades has returned its two lists
ReturnedLists == sim_pc = "done" /\ sim_ret # None

\* C5, as the specification states it: for N >= 102 the returned signals, put in ascending
\* timestamp order (in some order of equal timestamps), never hold the same
\* direction twice in a row.
C5_SortedSignalsAlternate ==
    (N >= MinRows /\ ReturnedLists) =>
        \E p \in ArgSorts(sim_ret.timestamps) :
            \A j \in 1..(Len(p) - 1) :
                sim_ret.signals[p[j]] # sim_ret.signals[p[j + 1]]

\* the returned list does not end with a BUY, every BUY in it is followed by
\* a SELL, and it holds as many BUYs as SELLs, one timestamp per signal
C6_Returned ==
    ReturnedLists =>
        LET sg == sim_ret.signals
        IN  /\ sg = <<>> \/ Last(sg) # BUY
            /\ \A j \in 1..Len(sg) :
                   sg[j] = BUY => j < Len(sg) /\ sg[j + 1] = SELL
            /\ Count(sg, BUY) = Count(sg, SELL)
            /\ Len(sim_ret.timestamps) = Len(sg)

\* returning while a trade is open removes the last signal, a BUY, and its
\* timestamp
C6_StripStep ==
    (sim_pc = "scan" /\ sim_pc' = "done" /\ active_trade) =>
        /\ Last(signals) = BUY
        /\ sim_ret'.signals = Front(signals)
        /\ sim_ret'.timestamps = Front(timestamps)

\* C6: the list simulate_trades returns never ends with a BUY: when the scan
\* ends with a trade open the trailing BUY and its timestamp are removed, so
\* every returned BUY is followed by a SELL and BUYs and SELLs are equally
\* many.
C6_NoTrailingBuy == [][C6_StripStep]_vars /\ []C6_Returned

\* C6 witness: the scan ended with a trade open and a closed trade before it,
\* and the closed trade alone was returned
C6_Witness ==
    /\ sim_pc = "done"
    /\ N >= MinRows
    /\ active_trade = TRUE
    /\ sim_ret.signals = <<BUY, SELL>>

\* C7, as the specification states it: for N >= 102 simulate_trades raises nothing.
C7_NeverRaises == N >= MinRows => sim_raised = "none"

\* a frame below MinRows rows goes from the call straight to returning None
C8_ShortFrame ==
    N < MinRows =>
        /\ sim_pc \in {"start", "done"}
        /\ sim_pc = "done" => sim_ret = None
        /\ sim_raised = "none"

\* a frame below MinRows rows has no row scanned and no signal emitted
C8_ShortFrameStep ==
    N < MinRows => UNCHANGED <<i, active_trade, timestamps, signals>>

\* the scan starts at row WarmUp, goes up one row at a time, scans no row
\* above N-3 and ends only after row N-3
C8_ScanSteps ==
    /\ (sim_pc = "start" /\ N >= MinRows) => sim_pc' = "scan" /\ i' = WarmUp
    /\ (sim_pc = "scan" /\ sim_pc' = "scan") =>
           i \in WarmUp..(N - 3) /\ i' = i + 1
    /\ (sim_pc = "scan" /\ sim_pc' # "scan") =>
           i = N - 2

\* C8: for N < 102 simulate_trades returns None without scanning a row or
\* emitting a signal; for N >= 102 it scans exactly the rows 100..N-3, in
\* order.
C8_ScanRange ==
    /\ []C8_ShortFrame
    /\ [][C8_ShortFrameStep /\ C8_ScanSteps]_vars

\* C8 witness: a frame of 101 rows was answered with None
C8_Witness ==
    /\ N = MinRows - 1
    /\ Len(frame) = 1
    /\ sim_pc = "done"
    /\ sim_ret = None

\* ------------------------------------------------------------------------
\* Further properties of simple_backtest (checked under Spec)
\* ------------------------------------------------------------------------
\* the closed trades recorded so far whose gain is zero or more
WinningTrades ==
    {j \in 1..Len(trade_gain_losses) : trade_gain_losses[j][1] >= 0}

ExecutedTime(r, j) ==
    IF j % 2 = 1 THEN r.buy_times[(j + 1) \div 2] ELSE r.sell_times[j \div 2]

\* C13, as the specification states it: trade_times holds the times of the
\* executed buys and the executed sells, in execution order.
C13_TradeTimesBothSides ==
    pc = "done" =>
        /\ Len(res.trade_times) = Len(res.buy_times) + Len(res.sell_times)
        /\ \A j \in 1..Len(res.trade_times) :
               res.trade_times[j] = ExecutedTime(res, j)

\* x = StartValue + the sum of the gains in q, by cross-multiplication
RECURSIVE StartPlusGains(_, _)
StartPlusGains(x, q) ==
    IF q = <<>> THEN x[1] = StartValue * x[2]
    ELSE LET g == q[Len(q)]
         IN  StartPlusGains(<<x[1] * g[2] - g[1] * x[2], x[2] * g[2]>>,
                            SubSeq(q, 1, Len(q) - 1))

C21_Value ==
    /\ (pc \in {"replay", "done"} \/ raised = BroadcastError) =>
          StartPlusGains(portfolio_value, trade_gain_losses)
    /\ pc = "done" =>
          /\ res.start_portfolio_value[1]
               = StartValue * res.start_portfolio_value[2]
          /\ res.end_portfolio_value = portfolio_value
          /\ StartPlusGains(res.end_portfolio_value, res.trade_gain_losses)

C21_Step ==
    (pc = "replay" /\ portfolio_value' # portfolio_value) =>
        /\ k < Len(df_filtered)
        /\ position = TRUE
        /\ df_filtered[k + 1].Signal = SELL
        /\ position' = FALSE
        /\ Len(trade_gain_losses') = Len(trade_gain_losses) + 1

EmitsBuy ==
    /\ sim_pc = "scan"
    /\ Len(signals') > Len(signals)
    /\ signals'[Len(signals')] = BUY

\* the fractal of row j lies in ]lo, hi]
InZone(j, lo, hi) ==
    /\ Row(j).bull # NaN
    /\ lo < Row(j).bull[1]
    /\ Row(j).bull[1] <= hi

C14_EntryStep ==
    EmitsBuy =>
        /\ i \in WarmUp..(N - 3)
        /\ ~active_trade
        /\ Row(i).twenty_ema > Row(i).fifty_ema
        /\ Row(i).fifty_ema > Row(i).one_hundred_ema
        /\ Row(i).bull # NaN
        /\ \/ InZone(i, Row(i).fifty_ema, Row(i).twenty_ema)
           \/ InZone(i, Row(i).one_hundred_ema, Row(i).fifty_ema)
        /\ signals' = Append(signals, BUY)

\* C14: a BUY is emitted for scanned row i only when no trade is active, the
\* three EMAs of row i are strictly ordered and the fractal of row i is not
\* null and lies in the 20/50 zone or in the 50/100 zone; one BUY per row.
C14_EntryOnlyOnSetup == [][C14_EntryStep]_vars

\* C14 witness: the first scanned row matched in the 50/100 zone and a BUY
\* was emitted for it
C14_Witness ==
    /\ sim_pc = "scan"
    /\ i = WarmUp + 1
    /\ signals = <<BUY>>
    /\ InZone(WarmUp, Row(WarmUp).one_hundred_ema, Row(WarmUp).fifty_ema)

\* the thresholds an entry matched at row j must set, from row j + 2
C15_Thresholds(j, sl, tp) ==
    LET c == j + 2
    IN  /\ sl = IF InZone(j, Row(j).fifty_ema, Row(j).twenty_ema)
                  THEN Row(c).fifty_ema
                  ELSE Row(c).one_hundred_ema
        /\ tp[1] * Target[2]
             = tp[2] * (Target[2] * Row(c).Close
                          + Target[1] * Abs(Row(c).Close - sl))
        /\ tp[1] >= Row(c).Close * tp[2]

C15_EntryStep ==
    (sim_pc = "scan" /\ ~active_trade /\ active_trade') =>
        /\ timestamps' = Append(timestamps, (i + 2) * MsPerMinute)
        /\ signals' = Append(signals, BUY)
        /\ C15_Thresholds(i, stop_loss', take_profit')

C15_HeldStep ==
    (sim_pc = "scan" /\ active_trade) =>
        UNCHANGED <<stop_loss, take_profit>>

\* C15: an entry matched at row i emits BUY at Time[i+2] and assigns
\* stop_loss (50 EMA or 100 EMA of row i+2, by zone) and take_profit
\* (Close[i+2] + target * |Close[i+2] - stop_loss| >= Close[i+2]); the
\* thresholds then stay as assigned while the trade is active.
C15_EntryThresholds == [][C15_EntryStep /\ C15_HeldStep]_vars

\* C15 witness: a second trade is open with thresholds of its own entry
C15_Witness ==
    /\ sim_pc = "scan"
    /\ active_trade
    /\ signals = <<BUY, SELL, BUY>>
    /\ stop_loss = Row(Last(timestamps) \div MsPerMinute).one_hundred_ema
    /\ stop_loss # Row(timestamps[1] \div MsPerMinute).one_hundred_ema
    /\ stop_loss # Row(timestamps[1] \div MsPerMinute).fifty_ema

\* row j reaches the take profit / falls below the stop loss
HitsTakeProfit(j) == Row(j).High * take_profit[2] >= take_profit[1]
HitsStopLoss(j) == Row(j).Low < stop_loss

C16_ActiveStep ==
    (sim_pc = "scan" /\ i < N - 2 /\ active_trade) =>
        IF HitsTakeProfit(i) \/ HitsStopLoss(i)
          THEN /\ signals' = Append(signals, SELL)
               /\ timestamps' = Append(timestamps, i * MsPerMinute)
               /\ ~active_trade'
          ELSE UNCHANGED <<signals, timestamps, active_trade,
                           stop_loss, take_profit>>

C17_Alternating ==
    sim_pc = "scan" =>
        /\ \A j \in 1..Len(signals) :
               signals[j] = IF j % 2 = 1 THEN BUY ELSE SELL
        /\ active_trade <=> (signals # <<>> /\ Last(signals) = BUY)

C17_Step ==
    sim_pc = "scan" =>
        /\ Len(signals') <= Len(signals) + 1
        /\ (active_trade /\ Len(signals') > Len(signals)) =>
               signals'[Len(signals')] = SELL
        /\ (~active_trade /\ Len(signals') > Len(signals)) =>
               signals'[Len(signals')] = BUY

\* C17: during the scan the emitted signals alternate BUY, SELL, BUY, ...
\* from a BUY, a trade is active exactly when the last emitted signal is a
\* BUY, a row emits at most one signal, never a BUY while a trade is active
\* and never a SELL while none is.
C17_BlocksDuringTrade == []C17_Alternating /\ [][C17_Step]_vars

\* C17 witness: a trade was opened and closed and the scan goes on flat
C17_Witness ==
    /\ sim_pc = "scan"
    /\ i < N - Confirm
    /\ signals = <<BUY, SELL>>
    /\ ~active_trade

\* C18, as the specification states it: the timestamps of the returned
\* lists are strictly increasing in emission order.
C18_TimestampsIncrease ==
    ReturnedLists =>
        \A j \in 1..(Len(sim_ret.timestamps) - 1) :
            sim_ret.timestamps[j] < sim_ret.timestamps[j + 1]

\* ------------------------------------------------------------------------
\* The module's script, lines 97-100: the lists simulate_trades returns are
\* replayed by simple_backtest on the same frame
\* ------------------------------------------------------------------------
\* the Time and Close columns of the frame, rows WarmUp..N-1 (the rows
\* before WarmUp are never scanned or stamped)
FrameDataset ==
    [r \in 1..(N - WarmUp) |->
        [Time |-> TimeOf(WarmUp + r - 1), Close |-> frame[r].Close]]

UnpackError == "TypeError: cannot unpack non-iterable NoneType object"

\* line 97 unpacks the returned value, line 100 calls simple_backtest
CallBacktest ==
    /\ sim_pc = "done"
    /\ pc = "idle"
    /\ IF sim_ret = None
         THEN /\ raised' = UnpackError
              /\ pc' = "raised"
              /\ UNCHANGED <<df, in_timestamps, in_signals>>
         ELSE /\ df' = FrameDataset
              /\ in_timestamps' = sim_ret.timestamps
              /\ in_signals' = sim_ret.signals
              /\ pc' = "validate"
              /\ raised' = raised
    /\ UNCHANGED <<df_filtered, k, position, prev_portfolio_value,
                   portfolio_value, crypto_value, buy_times, sell_times,
                   trade_times, trade_gain_losses, trade_perc_gain_losses,
                   wins, trades, res>>
    /\ UNCHANGED sim_vars

PipeInit == GenInit /\ N <= MaxPipeN

PipeNext ==
    \/ SimStart
    \/ ScanRow
    \/ SimFinish
    \/ CallBacktest
    \/ Validate
    \/ Prepare
    \/ ReplayStep
    \/ Aggregate

PipeSpec == PipeInit /\ [][PipeNext]_vars

\* ------------------------------------------------------------------------
\* Properties of the script (checked under PipeSpec)
\* ------------------------------------------------------------------------
\* the timestamps of q whose signal is v, in list order
RECURSIVE TimesOf(_, _, _)
TimesOf(ts, sg, v) ==
    IF ts = <<>> THEN <<>>
    ELSE IF Head(sg) = v
      THEN <<Head(ts)>> \o TimesOf(Tail(ts), Tail(sg), v)
      ELSE TimesOf(Tail(ts), Tail(sg), v)

\* C19, as the specification states it: the replay of the returned lists
\* closes as many trades as the lists hold BUYs, at the BUY and SELL
\* timestamps of the lists, and ends without an open position.
C19_FullyBracketed ==
    (pc = "done" /\ sim_pc = "done") =>
        /\ res.num_trades = Count(sim_ret.signals, BUY)
        /\ res.buy_times = TimesOf(sim_ret.timestamps, sim_ret.signals, BUY)
        /\ res.sell_times = TimesOf(sim_ret.timestamps, sim_ret.signals, SELL)
        /\ ~position

\* the Time values of rows lo..hi of the frame
RowTimes(lo, hi) == {r * MsPerMinute : r \in lo..hi}

C20_Stamps ==
    sim_pc = "scan" =>
        \A j \in 1..Len(signals) :
            IF signals[j] = BUY
              THEN timestamps[j] \in RowTimes(WarmUp + 2, N - 1)
              ELSE timestamps[j] \in RowTimes(WarmUp, N - 3)

C20_Returned ==
    ReturnedLists =>
        \A j \in 1..Len(sim_ret.timestamps) :
            sim_ret.timestamps[j] \in RowTimes(0, N - 1)

C20_Validated ==
    /\ raised # TimestampError
    /\ pc \notin {"idle", "raised"} =>
          /\ in_timestamps = sim_ret.timestamps
          /\ \A j \in 1..Len(in_timestamps) :
                 \E r \in 1..Len(df) : df[r].Time = in_timestamps[j]
    /\ pc \in {"replay", "done"} =>
          Len(df_filtered) >= Len(in_timestamps)

\* C20: every emitted timestamp is the Time of a row of the frame (BUYs of
\* rows 102..N-1, SELLs of rows 100..N-3), so the row i+2 read at an entry
\* exists, and simple_backtest never raises its timestamp error on the
\* returned lists.
C20_StampsAreRows == C20_Stamps /\ C20_Returned /\ C20_Validated

\* C20 witness: the replay runs on returned lists holding a BUY stamped
\* with the Time of row N-2, the last a returned BUY can carry
C20_Witness ==
    /\ pc = "replay"
    /\ \E j \in 1..Len(in_timestamps) :
           /\ in_signals[j] = BUY
           /\ in_timestamps[j] = (N - 2) * MsPerMinute

====
